---- MODULE Spec2Model ----
(***************************************************************************)
(* Order placement of the point-of-sale backend (app/server.js).           *)
(*                                                                         *)
(* The model has two layers.  The store layer is the PostgreSQL database   *)
(* the handler talks to: the committed tables, one transaction per pooled  *)
(* connection with its uncommitted writes, and the row locks taken by      *)
(* SELECT ... FOR UPDATE and UPDATE.  The handler layer is the async       *)
(* function of POST /api/orders: one action per await, each action running *)
(* the synchronous JavaScript up to the next await.                        *)
(*                                                                         *)
(* Quantities are JSON integers.  Money is in cents.                       *)
(*                                                                         *)
(* Four specifications share the variables:                                *)
(*   Spec       POST /api/orders of two requests, after a first start;     *)
(*   FairSpec   the same, with the event loop and the store making         *)
(*              progress;                                                  *)
(*   GetSpec    the same, beside one GET /api/orders/:orderId;             *)
(*   StartSpec  startServer (connectDB, initDB, listen) on the database    *)
(*              an earlier start left; no request arrives.                 *)
(* In Spec, FairSpec and GetSpec the startup variables stay as the first   *)
(* start left them, and catalog is not read: the handlers see column stock *)
(* of table products through the variable stock.                           *)
(***************************************************************************)
EXTENDS Integers, Sequences, FiniteSets, TLC

\* ------------------------------------------------------------------ bounds

MaxItems    == 2   \* longest items list of a request body
MaxStock    == 1   \* seeded stock of a product (50 and 100 in the seed data)
MaxRuns     == 2   \* starts of the process

\* for (let i = 0; i < 10; i++)
MaxAttempts == 10

\* ------------------------------------------------------------ the catalog

Req  == {"r1", "r2"}          \* the requests, in the order they arrive
Prod == {"p1", "p2"}          \* ids of the seeded rows (Milk, Orange)
UnknownId   == "u9"           \* a well-formed uuid no product row has
MalformedId == "bad"          \* a string that is not a uuid
ProductIds  == Prod \cup {UnknownId, MalformedId}

None == "none"

SeedStock == [p \in Prod |-> MaxStock]
SeedPrice == [p \in Prod |-> IF p = "p1" THEN 300 ELSE 85]

\* The quantities a client sends: a negative one, the whole seeded stock, and
\* one more than it.  The handler never reads the quantity of an item whose
\* lookup finds no row, so such items carry one fixed quantity.
Quantities == {-1, MaxStock, MaxStock + 1}
Items  == [productId : Prod, quantity : Quantities]
            \cup [productId : {UnknownId, MalformedId}, quantity : {1}]
Bodies == [isArray : {TRUE}, length : 0..MaxItems]
            \cup {[isArray |-> FALSE, length |-> 0]}

NoBody == [isArray |-> FALSE, length |-> 0]
NoRow  == [id |-> None, price |-> 0, stock |-> 0]

\* -------------------------------------------------------------- the state

VARIABLES
  stock,        \* products.stock of the committed rows
  orders,       \* committed rows of table orders
  order_items,  \* committed rows of table order_items
  lock,         \* row lock of each product row: the request holding it, or None
  tx,           \* transaction block of each connection: none, open, aborted
  wStock,       \* uncommitted products.stock written by each transaction
  wOrder,       \* uncommitted orders rows of each transaction
  wItems,       \* uncommitted order_items rows of each transaction
  alive,        \* the connection of the request still reaches the server
  client,       \* the request holds a pooled client
  pc,           \* the await the handler of each request stands at
  body,         \* req.body.items: is it an array, and its length
  items,        \* req.body.items as far as the loop has read it
  idx,          \* position in items of the item being processed
  product,      \* productResult.rows[0] of the last lookup
  orderItems,   \* the local list orderItems
  total,        \* the local total, in cents
  nIns,         \* order_items rows inserted so far by the second loop
  resp,         \* HTTP statuses sent on res, in order
  released,     \* calls of client.release()
  ended,        \* COMMIT / ROLLBACK commands the server executed for the request
  faulted,      \* the store failed the request: connection lost, or deadlock
  startStock,   \* products.stock as committed when BEGIN of the request returned
  phase,        \* the await startServer stands at
  attempts,     \* calls of pool.connect() made by connectDB
  connected,    \* connectDB returned the pool
  seeded,       \* initDB returned
  routes,       \* the API routes are registered on app
  listening,    \* app.listen was called
  runs,         \* starts of the process so far
  seeds,        \* times the seed statement of initDB has run, over all starts
  catalog,      \* rows of table products as initDB finds and leaves them
  gpc,          \* the await the handler of GET /api/orders/:orderId stands at
  orderId,      \* req.params.orderId
  orderResult,  \* orderResult.rows
  getRes,       \* responses sent on res by the GET handler, in order
  getFaulted    \* the store failed a query of the GET handler

storeVars   == <<stock, orders, order_items>>
txVars      == <<lock, tx, wStock, wOrder, wItems>>
reqVars     == <<body, items, idx>>
scopeVars   == <<product, orderItems, total, nIns>>
envVars     == <<faulted>>
bootVars    == <<phase, attempts, connected, seeded, routes, listening, runs,
                 seeds, catalog>>
getVars     == <<gpc, orderId, orderResult, getRes, getFaulted>>
postVars    == <<lock, tx, wStock, wOrder, wItems, alive, client, pc, body,
                 items, idx, product, orderItems, total, nIns, resp, released,
                 ended, faulted, startStock>>
vars == <<stock, orders, order_items, lock, tx, wStock, wOrder, wItems, alive,
          client, pc, body, items, idx, product, orderItems, total, nIns, resp,
          released, ended, faulted, startStock, phase, attempts, connected,
          seeded, routes, listening, runs, seeds, catalog, gpc, orderId, orderResult,
          getRes, getFaulted>>

NoWrites == [p \in {} |-> 0]

\* No request has arrived.
PostIdle ==
  /\ stock = SeedStock
  /\ orders = {}
  /\ order_items = {}
  /\ lock = [p \in Prod |-> None]
  /\ tx = [r \in Req |-> "none"]
  /\ wStock = [r \in Req |-> NoWrites]
  /\ wOrder = [r \in Req |-> {}]
  /\ wItems = [r \in Req |-> {}]
  /\ alive = [r \in Req |-> FALSE]
  /\ client = [r \in Req |-> FALSE]
  /\ pc = [r \in Req |-> "idle"]
  /\ body = [r \in Req |-> NoBody]
  /\ items = [r \in Req |-> <<>>]
  /\ idx = [r \in Req |-> 0]
  /\ product = [r \in Req |-> NoRow]
  /\ orderItems = [r \in Req |-> <<>>]
  /\ total = [r \in Req |-> 0]
  /\ nIns = [r \in Req |-> 0]
  /\ resp = [r \in Req |-> <<>>]
  /\ released = [r \in Req |-> 0]
  /\ ended = [r \in Req |-> 0]
  /\ faulted = [r \in Req |-> FALSE]
  /\ startStock = [r \in Req |-> NoWrites]

\* ---------------------------------------------------- JavaScript and SQL

\* The server parses the text of $1 as a uuid.
IsUuid(id) == id # MalformedId

\* n / d rounded to the nearest integer, halves away from zero.
RoundDiv(n, d) ==
  IF n >= 0 THEN (2 * n + d) \div (2 * d) ELSE -((2 * (-n) + d) \div (2 * d))

TruncatedTax(t) == (t * 108) \div 100

\* total * (1 + taxRate), in cents, as the DECIMAL(10,2) column total stores
\* it and as toFixed(2) prints it in the response.  Both round to the nearest
\* cent; they differ only on an exact half cent, which t * 108 / 100 never
\* is (8 * t is never 50 modulo 100).
TotalWithTax(t) == RoundDiv(t * 108, 100)

NotAnArray(b) == ~b.isArray

\* !Array.isArray(items) || items.length === 0
InvalidItems(b) == ~b.isArray \/ b.length = 0

NoStockCheck(row, it) == FALSE
StockCheckOffByOne(row, it) == row.stock <= it.quantity

\* product.stock < item.quantity
InsufficientStock(row, it) == row.stock < it.quantity

NewStockByOne(cur, qty) == cur - 1

\* SET stock = stock - $1
NewStock(cur, qty) == cur - qty

NoForUpdate == FALSE

\* The SELECT of the lookup carries FOR UPDATE.
ForUpdate == TRUE

CommitInstead == "COMMIT"

\* The command each exit of the handler sends to end the transaction.
SqlInvalid      == "ROLLBACK"
SqlNotFound     == "ROLLBACK"
SqlInsufficient == "ROLLBACK"
SqlSuccess      == "COMMIT"
SqlCatch        == "ROLLBACK"

\* The status of each response.
StatusInvalid      == 400
StatusNotFound     == 404
StatusInsufficient == 400
StatusOk           == 200
StatusError        == 500

\* The status of each response of GET /api/orders/:orderId.
StatusOrderNotFound == 404
StatusFetched       == 200
StatusFetchFailed   == 500

\* ----------------------------------------------------------- store layer

\* products.stock of row p as transaction r sees it (READ COMMITTED: its own
\* write if it made one, the committed row otherwise).
Visible(r, p) == IF p \in DOMAIN wStock[r] THEN wStock[r][p] ELSE stock[p]

Written(f, p, v) == [q \in DOMAIN f \cup {p} |-> IF q = p THEN v ELSE f[q]]

Unlocked(r) == [p \in Prod |-> IF lock[p] = r THEN None ELSE lock[p]]

\* The server drops everything transaction r wrote and its row locks.
Discard(r) ==
  /\ wStock' = [wStock EXCEPT ![r] = NoWrites]
  /\ wOrder' = [wOrder EXCEPT ![r] = {}]
  /\ wItems' = [wItems EXCEPT ![r] = {}]
  /\ lock' = Unlocked(r)

\* A statement of r fails on the server: the transaction is aborted at once
\* (writes and locks gone) and the block refuses statements until it is ended.
StatementError(r) ==
  /\ tx' = [tx EXCEPT ![r] = "aborted"]
  /\ Discard(r)
  /\ UNCHANGED storeVars

\* COMMIT or ROLLBACK on the connection of r.  COMMIT of an open transaction
\* makes its writes the committed rows; every other case drops them.
EndTransaction(r, cmd) ==
  /\ IF cmd = "COMMIT" /\ tx[r] = "open"
       THEN /\ stock' = [p \in Prod |-> Visible(r, p)]
            /\ orders' = orders \cup wOrder[r]
            /\ order_items' = order_items \cup wItems[r]
       ELSE UNCHANGED storeVars
  /\ tx' = [tx EXCEPT ![r] = "none"]
  /\ Discard(r)
  /\ ended' = [ended EXCEPT ![r] = @ + 1]

\* --------------------------------------------------------------- startup

SeedName    == [p \in Prod |-> IF p = "p1" THEN "Milk" ELSE "Orange"]
SeedBarcode == [p \in Prod |-> IF p = "p1" THEN "1234567890" ELSE "5555666677"]

\* The VALUES list of the seed statement.
SeedValues ==
  {[name |-> SeedName[p], price |-> SeedPrice[p], stock |-> SeedStock[p],
    barcode |-> SeedBarcode[p]] : p \in Prod}

\* gen_random_uuid() for the row inserted for a seeded name.
NewId(name) == CHOOSE p \in Prod : SeedName[p] = name

DoNothingOnConflict(c) ==
  c \cup {[id |-> NewId(v.name), name |-> v.name, price |-> v.price,
           stock |-> v.stock, barcode |-> v.barcode] :
             v \in {w \in SeedValues : \A x \in c : x.name # w.name}}

\* INSERT INTO products ... VALUES ... ON CONFLICT (name) DO UPDATE SET price,
\* stock, barcode: a row whose name is in the list takes the listed values and
\* keeps its id; a listed name without a row gets a new row; other rows stay.
Upsert(c) ==
  {x \in c : \A v \in SeedValues : x.name # v.name}
    \cup {[id |-> x.id, name |-> x.name, price |-> v.price, stock |-> v.stock,
           barcode |-> v.barcode] :
             <<x, v>> \in {y \in c \X SeedValues : y[1].name = y[2].name}}
    \cup {[id |-> NewId(v.name), name |-> v.name, price |-> v.price,
           stock |-> v.stock, barcode |-> v.barcode] :
             v \in {w \in SeedValues : \A x \in c : x.name # w.name}}

\* The rows an earlier start can have left for product p: none (a new
\* database), or one row whose stock orders have changed and whose price and
\* barcode are those of the seed data of that start.
EarlierRows(p) ==
  {{}} \cup {{[id |-> p, name |-> SeedName[p], price |-> pr, stock |-> st,
               barcode |-> bc]} :
             pr \in {SeedPrice[p], SeedPrice[p] + 10},
             st \in 0..(MaxStock + 1),
             bc \in {SeedBarcode[p], "0000000000"}}

Catalogs == {a \cup b : a \in EarlierRows("p1"), b \in EarlierRows("p2")}

\* The process has started on a new database and listens.
Started ==
  /\ phase = "listening"
  /\ attempts = 1
  /\ connected = TRUE /\ seeded = TRUE /\ routes = TRUE /\ listening = TRUE
  /\ runs = 1
  /\ seeds = 1
  /\ catalog = Upsert({})

RetryForever == TRUE

\* i < 10 after i++
MayRetry == attempts < MaxAttempts

\* const client = await pool.connect() of connectDB returns: the client is
\* released, connectDB returns the pool and initDB sends its statements.
ConnectOk ==
  /\ phase = "connectDB"
  /\ attempts' = attempts + 1
  /\ connected' = TRUE
  /\ phase' = "initDB"
  /\ UNCHANGED <<seeded, routes, listening, runs, seeds, catalog>>
  /\ UNCHANGED <<storeVars, postVars, getVars>>

\* pool.connect() of connectDB rejects: the attempt is logged and the 2 second
\* timer is started.
ConnectFails ==
  /\ phase = "connectDB"
  /\ attempts' = attempts + 1
  /\ phase' = "wait"
  /\ UNCHANGED <<connected, seeded, routes, listening, runs, seeds, catalog>>
  /\ UNCHANGED <<storeVars, postVars, getVars>>

\* The timer fires: the loop goes round again, or it is over, connectDB throws
\* and the catch block of startServer calls process.exit(1).
TimerFired ==
  /\ phase = "wait"
  /\ phase' = IF MayRetry THEN "connectDB" ELSE "exited"
  /\ UNCHANGED <<attempts, connected, seeded, routes, listening, runs, seeds,
                 catalog>>
  /\ UNCHANGED <<storeVars, postVars, getVars>>

\* The statements of initDB return (CREATE TABLE IF NOT EXISTS three times,
\* then the seed statement); startServer registers the routes and calls
\* app.listen.
InitDB ==
  /\ phase = "initDB"
  /\ catalog' = Upsert(catalog)
  /\ seeds' = seeds + 1
  /\ seeded' = TRUE
  /\ routes' = TRUE
  /\ listening' = TRUE
  /\ phase' = "listening"
  /\ UNCHANGED <<attempts, connected, runs>>
  /\ UNCHANGED <<storeVars, postVars, getVars>>

\* A statement of initDB rejects: initDB rethrows and the catch block of
\* startServer calls process.exit(1).  The seed statement is one statement:
\* it changes every row or none.
InitDBFails ==
  /\ phase = "initDB"
  /\ phase' = "exited"
  /\ UNCHANGED <<attempts, connected, seeded, routes, listening, runs, seeds,
                 catalog>>
  /\ UNCHANGED <<storeVars, postVars, getVars>>

\* The process is started again (startServer() at the end of server.js).
Start ==
  /\ phase \in {"listening", "exited"}
  /\ runs < MaxRuns
  /\ runs' = runs + 1
  /\ phase' = "connectDB"
  /\ attempts' = 0
  /\ connected' = FALSE
  /\ seeded' = FALSE
  /\ routes' = FALSE
  /\ listening' = FALSE
  /\ UNCHANGED <<seeds, catalog>>
  /\ UNCHANGED <<storeVars, postVars, getVars>>

\* --------------------------------------------------------- handler layer

\* The awaits inside the try block.
TryPcs == {"begin", "rbInvalid", "select", "rbNotFound", "rbStock", "update",
           "insertOrder", "insertItem", "commit"}

\* Control leaves the try block: its block-scoped variables are gone.
ScopeEnd(r) ==
  /\ product' = [product EXCEPT ![r] = NoRow]
  /\ orderItems' = [orderItems EXCEPT ![r] = <<>>]
  /\ total' = [total EXCEPT ![r] = 0]
  /\ nIns' = [nIns EXCEPT ![r] = 0]
  /\ startStock' = [startStock EXCEPT ![r] = NoWrites]

ExitNoRelease(r, statuses) ==
  /\ resp' = [resp EXCEPT ![r] = resp[r] \o statuses]
  /\ pc' = [pc EXCEPT ![r] = "done"]
  /\ ScopeEnd(r)
  /\ UNCHANGED released

\* res.status(s).json(...), then the finally block: client.release().
Exit(r, statuses) ==
  /\ resp' = [resp EXCEPT ![r] = resp[r] \o statuses]
  /\ released' = [released EXCEPT ![r] = @ + 1]
  /\ pc' = [pc EXCEPT ![r] = "done"]
  /\ ScopeEnd(r)

\* An await inside the try block rejects: the catch block sends ROLLBACK.
Throw(r) ==
  /\ pc' = [pc EXCEPT ![r] = "catch"]
  /\ ScopeEnd(r)

\* The loop variable item.
Item(r) == items[r][idx[r]]

\* The next round of `for (const item of items)`: the item the client put at
\* position i is read and its lookup is sent.
NextItem(r, i) ==
  \E it \in Items :
    /\ items' = [items EXCEPT ![r] = Append(@, it)]
    /\ idx' = [idx EXCEPT ![r] = i]
    /\ pc' = [pc EXCEPT ![r] = "select"]

\* q arrives before r.
Before(q, r) == q = "r1" /\ r = "r2"

\* A POST /api/orders arrives and the handler calls pool.connect().
Receive(r) ==
  /\ pc[r] = "idle"
  /\ routes /\ listening
  /\ \A q \in Req : Before(q, r) => pc[q] # "idle"
  /\ \E b \in Bodies : body' = [body EXCEPT ![r] = b]
  /\ pc' = [pc EXCEPT ![r] = "connect"]
  /\ UNCHANGED <<storeVars, txVars, alive, client, items, idx, scopeVars,
                 resp, released, ended, faulted>>
  /\ UNCHANGED startStock
  /\ UNCHANGED <<bootVars, getVars>>

\* const client = await pool.connect() returns; client.query('BEGIN') is sent.
PoolConnect(r) ==
  /\ pc[r] = "connect"
  /\ client' = [client EXCEPT ![r] = TRUE]
  /\ alive' = [alive EXCEPT ![r] = TRUE]
  /\ pc' = [pc EXCEPT ![r] = "begin"]
  /\ UNCHANGED <<storeVars, txVars, reqVars, scopeVars, resp, released, ended,
                 envVars>>
  /\ UNCHANGED startStock
  /\ UNCHANGED <<bootVars, getVars>>

\* pool.connect() rejects.  The await is outside the try block: the handler's
\* promise rejects, nothing is sent on res and there is no client to release.
PoolConnectFails(r) ==
  /\ pc[r] = "connect"
  /\ faulted' = [faulted EXCEPT ![r] = TRUE]
  /\ pc' = [pc EXCEPT ![r] = "done"]
  /\ UNCHANGED <<storeVars, txVars, alive, client, reqVars, scopeVars, resp,
                 released, ended>>
  /\ UNCHANGED startStock
  /\ UNCHANGED <<bootVars, getVars>>

\* BEGIN returns; the items check runs; either ROLLBACK or the first lookup
\* is sent.
Begin(r) ==
  /\ pc[r] = "begin"
  /\ alive[r]
  /\ tx' = [tx EXCEPT ![r] = "open"]
  /\ IF InvalidItems(body[r])
       THEN /\ pc' = [pc EXCEPT ![r] = "rbInvalid"]
            /\ UNCHANGED <<items, idx>>
       ELSE NextItem(r, 1)
  /\ startStock' = [startStock EXCEPT ![r] = stock]
  /\ UNCHANGED <<storeVars, lock, wStock, wOrder, wItems, alive, client, body,
                 scopeVars, resp, released, ended, envVars>>
  /\ UNCHANGED <<bootVars, getVars>>

\* ROLLBACK of the invalid-items exit returns; 400 is sent.
RollbackInvalid(r) ==
  /\ pc[r] = "rbInvalid"
  /\ alive[r]
  /\ EndTransaction(r, SqlInvalid)
  /\ Exit(r, <<StatusInvalid>>)
  /\ UNCHANGED <<alive, client, reqVars, envVars>>
  /\ UNCHANGED <<bootVars, getVars>>

\* SELECT id, name, price, stock FROM products WHERE id = $1 FOR UPDATE
\* returns (it waits while another transaction holds the row lock); then the
\* two checks run and ROLLBACK or the UPDATE is sent.
SelectProduct(r) ==
  /\ pc[r] = "select"
  /\ alive[r]
  /\ tx[r] = "open"
  /\ LET id == Item(r).productId IN
       IF ~IsUuid(id)
         THEN /\ StatementError(r)
              /\ Throw(r)
         ELSE IF id \notin Prod
           THEN /\ product' = [product EXCEPT ![r] = NoRow]
                /\ pc' = [pc EXCEPT ![r] = "rbNotFound"]
                /\ UNCHANGED <<storeVars, txVars, orderItems, total, nIns,
                               startStock>>
           ELSE LET row == [id |-> id, price |-> SeedPrice[id],
                            stock |-> Visible(r, id)] IN
                /\ ForUpdate => lock[id] \in {None, r}
                /\ lock' = IF ForUpdate THEN [lock EXCEPT ![id] = r] ELSE lock
                /\ product' = [product EXCEPT ![r] = row]
                /\ IF InsufficientStock(row, Item(r))
                     THEN /\ pc' = [pc EXCEPT ![r] = "rbStock"]
                          /\ UNCHANGED total
                     ELSE /\ total' = [total EXCEPT ![r] =
                                @ + row.price * Item(r).quantity]
                          /\ pc' = [pc EXCEPT ![r] = "update"]
                /\ UNCHANGED <<storeVars, tx, wStock, wOrder, wItems,
                               orderItems, nIns, startStock>>
  /\ UNCHANGED <<alive, client, reqVars, resp, released, ended, envVars>>
  /\ UNCHANGED <<bootVars, getVars>>

\* ROLLBACK of the unknown-product exit returns; 404 is sent.
RollbackNotFound(r) ==
  /\ pc[r] = "rbNotFound"
  /\ alive[r]
  /\ EndTransaction(r, SqlNotFound)
  /\ Exit(r, <<StatusNotFound>>)
  /\ UNCHANGED <<alive, client, reqVars, envVars>>
  /\ UNCHANGED <<bootVars, getVars>>

\* ROLLBACK of the insufficient-stock exit returns; 400 is sent.
RollbackInsufficient(r) ==
  /\ pc[r] = "rbStock"
  /\ alive[r]
  /\ EndTransaction(r, SqlInsufficient)
  /\ Exit(r, <<StatusInsufficient>>)
  /\ UNCHANGED <<alive, client, reqVars, envVars>>
  /\ UNCHANGED <<bootVars, getVars>>

\* UPDATE products SET stock = stock - $1 WHERE id = $2 returns (it takes the
\* row lock if the transaction does not hold it); the item is pushed on
\* orderItems; the next lookup or the INSERT of the order is sent.
UpdateStock(r) ==
  /\ pc[r] = "update"
  /\ alive[r]
  /\ tx[r] = "open"
  /\ LET id == Item(r).productId IN
       /\ lock[id] \in {None, r}
       /\ lock' = [lock EXCEPT ![id] = r]
       /\ wStock' = [wStock EXCEPT ![r] =
             Written(@, id, NewStock(Visible(r, id), Item(r).quantity))]
  /\ orderItems' = [orderItems EXCEPT ![r] =
        Append(@, [productId |-> product[r].id, quantity |-> Item(r).quantity,
                   price |-> product[r].price])]
  /\ IF idx[r] < body[r].length
       THEN NextItem(r, idx[r] + 1)
       ELSE /\ pc' = [pc EXCEPT ![r] = "insertOrder"]
            /\ UNCHANGED <<items, idx>>
  /\ UNCHANGED <<storeVars, tx, wOrder, wItems, alive, client, body, product,
                 total, nIns, resp, released, ended, envVars, startStock>>
  /\ UNCHANGED <<bootVars, getVars>>

\* INSERT INTO orders (total, pickup_code) ... RETURNING id returns; the first
\* INSERT INTO order_items is sent.
InsertOrder(r) ==
  /\ pc[r] = "insertOrder"
  /\ alive[r]
  /\ tx[r] = "open"
  /\ wOrder' = [wOrder EXCEPT ![r] =
        @ \cup {[id |-> r, total |-> TotalWithTax(total[r])]}]
  /\ nIns' = [nIns EXCEPT ![r] = 0]
  /\ pc' = [pc EXCEPT ![r] = "insertItem"]
  /\ UNCHANGED <<storeVars, lock, tx, wStock, wItems, alive, client, reqVars,
                 product, orderItems, total, resp, released, ended, envVars,
                 startStock>>
  /\ UNCHANGED <<bootVars, getVars>>

\* INSERT INTO order_items (order_id, product_id, quantity) returns; the next
\* INSERT or COMMIT is sent.
InsertOrderItem(r) ==
  /\ pc[r] = "insertItem"
  /\ alive[r]
  /\ tx[r] = "open"
  /\ LET it == orderItems[r][nIns[r] + 1] IN
       wItems' = [wItems EXCEPT ![r] =
          @ \cup {[order_id |-> r, product_id |-> it.productId,
                   quantity |-> it.quantity, pos |-> nIns[r] + 1]}]
  /\ nIns' = [nIns EXCEPT ![r] = @ + 1]
  /\ pc' = [pc EXCEPT ![r] =
        IF nIns[r] + 1 = Len(orderItems[r]) THEN "commit" ELSE "insertItem"]
  /\ UNCHANGED <<storeVars, lock, tx, wStock, wOrder, alive, client, reqVars,
                 product, orderItems, total, resp, released, ended, envVars,
                 startStock>>
  /\ UNCHANGED <<bootVars, getVars>>

\* COMMIT returns; the order is sent with status 200.
Commit(r) ==
  /\ pc[r] = "commit"
  /\ alive[r]
  /\ EndTransaction(r, SqlSuccess)
  /\ Exit(r, <<StatusOk>>)
  /\ UNCHANGED <<alive, client, reqVars, envVars>>
  /\ UNCHANGED <<bootVars, getVars>>

\* The ROLLBACK of the catch block returns; 500 is sent.
CatchRollback(r) ==
  /\ pc[r] = "catch"
  /\ alive[r]
  /\ EndTransaction(r, SqlCatch)
  /\ Exit(r, <<StatusError>>)
  /\ UNCHANGED <<alive, client, reqVars, envVars>>
  /\ UNCHANGED <<bootVars, getVars>>

\* The ROLLBACK of the catch block rejects: the catch block throws, the
\* finally block releases the client and nothing is sent on res.
CatchRejected(r) ==
  /\ pc[r] = "catch"
  /\ ~alive[r]
  /\ released' = [released EXCEPT ![r] = @ + 1]
  /\ pc' = [pc EXCEPT ![r] = "done"]
  /\ UNCHANGED <<storeVars, txVars, alive, client, reqVars, scopeVars, resp,
                 ended, envVars>>
  /\ UNCHANGED startStock
  /\ UNCHANGED <<bootVars, getVars>>

\* The connection of r breaks while a query is outstanding: the server ends
\* the session, which rolls its transaction back, and the query rejects.
ConnectionLost(r) ==
  /\ pc[r] \in TryPcs \cup {"catch"}
  /\ alive[r]
  /\ faulted' = [faulted EXCEPT ![r] = TRUE]
  /\ alive' = [alive EXCEPT ![r] = FALSE]
  /\ tx' = [tx EXCEPT ![r] = "none"]
  /\ Discard(r)
  /\ Throw(r)
  /\ UNCHANGED <<storeVars, client, reqVars, resp, released, ended>>
  /\ UNCHANGED <<bootVars, getVars>>

\* The connection of r breaks after the server executed COMMIT and before
\* the client got the reply: the query rejects.
CommitReplyLost(r) ==
  /\ pc[r] = "commit"
  /\ alive[r]
  /\ faulted' = [faulted EXCEPT ![r] = TRUE]
  /\ alive' = [alive EXCEPT ![r] = FALSE]
  /\ EndTransaction(r, SqlSuccess)
  /\ Throw(r)
  /\ UNCHANGED <<client, reqVars, resp, released>>
  /\ UNCHANGED <<bootVars, getVars>>

\* The transaction whose row lock the outstanding statement of r waits for.
WaitsFor(r) ==
  IF /\ pc[r] \in {"select", "update"}
     /\ Item(r).productId \in Prod
     /\ pc[r] = "select" => ForUpdate
     /\ lock[Item(r).productId] \notin {None, r}
    THEN lock[Item(r).productId] ELSE None

\* The server finds r and another transaction waiting for each other's row
\* lock and fails the statement of r (deadlock detected).
DeadlockDetected(r) ==
  /\ WaitsFor(r) # None
  /\ WaitsFor(WaitsFor(r)) = r
  /\ StatementError(r)
  /\ Throw(r)
  /\ faulted' = [faulted EXCEPT ![r] = TRUE]
  /\ UNCHANGED <<alive, client, reqVars, resp, released, ended>>
  /\ UNCHANGED <<bootVars, getVars>>

\* ---------------------------------------------- GET /api/orders/:orderId

\* The values of :orderId: the id of the order of a request, a well-formed
\* uuid no order has, and a string that is not a uuid.
OrderIds == Req \cup {UnknownId, MalformedId}

NoRows == {}

GetIdle ==
  /\ gpc = "idle"
  /\ orderId = None
  /\ orderResult = NoRows
  /\ getRes = <<>>
  /\ getFaulted = FALSE

\* res.status(s).json(...) and the handler returns.
GetExit(s, order, rows) ==
  /\ getRes' = Append(getRes, [status |-> s, order |-> order, items |-> rows])
  /\ orderResult' = NoRows
  /\ gpc' = "done"

\* A GET /api/orders/:orderId arrives; SELECT * FROM orders WHERE id = $1 is
\* sent on the pool.
GetReceive ==
  /\ gpc = "idle"
  /\ routes /\ listening
  /\ \E id \in OrderIds : orderId' = id
  /\ gpc' = "order"
  /\ UNCHANGED <<orderResult, getRes, getFaulted>>
  /\ UNCHANGED <<storeVars, postVars, bootVars>>

\* The first query returns: the server fails it if $1 is not uuid text (catch:
\* 500); no row: 404; else the query of the items is sent.
GetOrder ==
  /\ gpc = "order"
  /\ IF ~IsUuid(orderId)
       THEN GetExit(StatusFetchFailed, NoRows, NoRows)
       ELSE LET rows == {o \in orders : o.id = orderId} IN
            IF rows = {}
              THEN GetExit(StatusOrderNotFound, NoRows, NoRows)
              ELSE /\ orderResult' = rows
                   /\ gpc' = "items"
                   /\ UNCHANGED getRes
  /\ UNCHANGED <<orderId, getFaulted>>
  /\ UNCHANGED <<storeVars, postVars, bootVars>>

\* SELECT p.name, oi.quantity FROM order_items oi JOIN products p ON
\* oi.product_id = p.id WHERE oi.order_id = $1 returns; the order and the
\* items are sent.  pos stands for the identity of a result row.
GetItems ==
  /\ gpc = "items"
  /\ GetExit(StatusFetched, orderResult,
             {[name |-> SeedName[i.product_id], quantity |-> i.quantity,
               pos |-> i.pos] :
                i \in {j \in order_items : /\ j.order_id = orderId
                                           /\ j.product_id \in DOMAIN stock}})
  /\ UNCHANGED <<orderId, getFaulted>>
  /\ UNCHANGED <<storeVars, postVars, bootVars>>

\* A query of the handler rejects (the store is unreachable): catch, 500.
GetFails ==
  /\ gpc \in {"order", "items"}
  /\ getFaulted' = TRUE
  /\ GetExit(StatusFetchFailed, NoRows, NoRows)
  /\ UNCHANGED orderId
  /\ UNCHANGED <<storeVars, postVars, bootVars>>

\* ------------------------------------------------------ specifications

\* The process has started on a new database; no request has arrived.
Init == PostIdle /\ GetIdle /\ Started

\* POST /api/orders.
Next ==
  \E r \in Req :
    \/ Receive(r)
    \/ PoolConnect(r)
    \/ PoolConnectFails(r)
    \/ Begin(r)
    \/ RollbackInvalid(r)
    \/ SelectProduct(r)
    \/ RollbackNotFound(r)
    \/ RollbackInsufficient(r)
    \/ UpdateStock(r)
    \/ InsertOrder(r)
    \/ InsertOrderItem(r)
    \/ Commit(r)
    \/ CatchRollback(r)
    \/ CatchRejected(r)
    \/ ConnectionLost(r)
    \/ CommitReplyLost(r)
    \/ DeadlockDetected(r)

Spec == Init /\ [][Next]_vars

\* The steps of request r that the event loop and the store take once they
\* can: every step but the arrival of the request and the loss of its
\* connection.
Progress(r) ==
  \/ PoolConnect(r) \/ Begin(r) \/ RollbackInvalid(r) \/ SelectProduct(r)
  \/ RollbackNotFound(r) \/ RollbackInsufficient(r) \/ UpdateStock(r)
  \/ InsertOrder(r) \/ InsertOrderItem(r) \/ Commit(r) \/ CatchRollback(r)
  \/ CatchRejected(r) \/ DeadlockDetected(r)

\* POST /api/orders with a store and an event loop that keep going.
FairSpec == Init /\ [][Next]_vars /\ \A r \in Req : WF_vars(Progress(r))

\* POST /api/orders and GET /api/orders/:orderId side by side.
GetNext == Next \/ GetReceive \/ GetOrder \/ GetItems \/ GetFails

GetSpec == Init /\ [][GetNext]_vars

\* The process starts on the database an earlier start left.
StartInit ==
  /\ PostIdle /\ GetIdle
  /\ phase = "connectDB"
  /\ attempts = 0
  /\ connected = FALSE /\ seeded = FALSE /\ routes = FALSE /\ listening = FALSE
  /\ runs = 1
  /\ seeds = 0
  /\ catalog \in Catalogs

StartNext ==
  \/ ConnectOk \/ ConnectFails \/ TimerFired \/ InitDB \/ InitDBFails \/ Start

StartSpec == StartInit /\ [][StartNext]_vars

\* ------------------------------------------------------------ properties

RECURSIVE SumFn(_, _)
SumFn(f, S) ==
  IF S = {} THEN 0
  ELSE LET x == CHOOSE y \in S : TRUE IN f[x] + SumFn(f, S \ {x})

\* The committed rows of the order of request r.
OrderRows(r) == {o \in orders : o.id = r}
ItemRows(r)  == {i \in order_items : i.order_id = r}

\* Units of product p in the committed order_items rows.
Sold(p) ==
  LET rows == {i \in order_items : i.product_id = p}
  IN  SumFn([i \in rows |-> i.quantity], rows)

\* Units of product p the items list its asks for in total.
Requested(its, p) ==
  LET at == {k \in 1..Len(its) : its[k].productId = p}
  IN  SumFn([k \in at |-> its[k].quantity], at)

\* Nothing of the order of r is committed / all of it is.
Absent(r) == OrderRows(r) = {} /\ ItemRows(r) = {}
Complete(r) ==
  /\ Cardinality(OrderRows(r)) = 1
  /\ Cardinality(ItemRows(r)) = body[r].length
  /\ Len(items[r]) = body[r].length
  /\ \A k \in 1..body[r].length :
       \E i \in ItemRows(r) :
         /\ i.pos = k
         /\ i.product_id = items[r][k].productId
         /\ i.quantity = items[r][k].quantity

Finished(r) == pc[r] = "done"
Clean(r)    == Finished(r) /\ ~faulted[r]

\* C1: in every reachable state the committed stock of every product is >= 0.
StockNeverNegative == \A p \in Prod : stock[p] >= 0

\* Two requests asked for the whole stock of one product; one got it, the
\* other was refused, and the stock is 0.
StockNeverNegativeWitness ==
  \E r, q \in Req, p \in Prod :
    /\ r # q /\ Finished(r) /\ Finished(q)
    /\ items[r] = <<[productId |-> p, quantity |-> SeedStock[p]]>>
    /\ items[q] = items[r]
    /\ resp[r] = <<StatusOk>> /\ resp[q] = <<StatusInsufficient>>
    /\ stock[p] = 0

\* C2: order placement is all-or-nothing in the committed state: of each
\* request either the order row, every order_items row and every stock
\* decrement are committed, or none of them is.
AllOrNothing ==
  /\ \A r \in Req : Absent(r) \/ Complete(r)
  /\ \A p \in Prod :
       LET done == {r \in Req : OrderRows(r) # {}}
       IN  stock[p] = SeedStock[p] - SumFn([r \in done |-> Requested(items[r], p)], done)

\* One order is committed while the other request is half way through its
\* inserts, with a stock decrement and one of two item rows uncommitted.
AllOrNothingWitness ==
  \E r, q \in Req :
    /\ r # q /\ Complete(r) /\ Absent(q)
    /\ pc[q] = "insertItem" /\ nIns[q] = 1 /\ body[q].length = 2
    /\ wOrder[q] # {} /\ DOMAIN wStock[q] # {}

\* The two requests ask for the same product, one item each, and no store
\* failure hits them.
SameProductRace(p, q1, q2) ==
  /\ Clean("r1") /\ Clean("r2")
  /\ body["r1"].length = 1 /\ body["r2"].length = 1
  /\ items["r1"] = <<[productId |-> p, quantity |-> q1]>>
  /\ items["r2"] = <<[productId |-> p, quantity |-> q2]>>

Winners == {r \in Req : resp[r] = <<StatusOk>>}

\* C3 as stated: two requests for the same product whose combined quantity
\* exceeds the stock: exactly one succeeds and the stock is not negative.
ExactlyOneSucceeds ==
  \A p \in Prod, q1, q2 \in Quantities :
    SameProductRace(p, q1, q2) /\ q1 + q2 > SeedStock[p]
      => Cardinality(Winners) = 1 /\ stock[p] >= 0

\* C3 amended: when each quantity alone is within the stock and the two
\* together exceed it, exactly one request succeeds, the other is refused
\* with 400, and the stock is what the winner left.
ExactlyOneOfTwoFitting ==
  \A p \in Prod, q1, q2 \in Quantities :
    /\ SameProductRace(p, q1, q2)
    /\ q1 <= SeedStock[p] /\ q2 <= SeedStock[p]
    /\ q1 + q2 > SeedStock[p]
    => \E w \in Req :
         /\ Winners = {w}
         /\ \A l \in Req \ {w} : resp[l] = <<StatusInsufficient>>
         /\ stock[p] = SeedStock[p] - items[w][1].quantity
         /\ stock[p] >= 0

ExactlyOneOfTwoFittingWitness ==
  \E p \in Prod :
    /\ SameProductRace(p, SeedStock[p], SeedStock[p])
    /\ resp["r2"] = <<StatusOk>> /\ resp["r1"] = <<StatusInsufficient>>

\* The awaits at which product[r] is the row looked up for Item(r).
AfterLookup == {"rbStock", "update", "insertOrder", "insertItem", "commit"}

\* The row looked up for the current item holds less than the item asks for.
Exceeds(r) ==
  /\ pc[r] \in AfterLookup
  /\ product[r].id = Item(r).productId
  /\ Item(r).quantity > product[r].stock

\* The step in which request r takes the insufficient-stock exit.
RefusedStep(r) == pc[r] = "rbStock" /\ pc'[r] = "done"

\* C4: an item asking for more than the stock of its product sends the request
\* to the insufficient-stock exit; that exit answers 400, commits nothing the
\* request wrote (the decrements of earlier items included) and leaves no
\* Order or OrderItem row of the request.
InsufficientStockRefused ==
  /\ [](\A r \in Req : Exceeds(r) => pc[r] = "rbStock")
  /\ [][\A r \in Req : RefusedStep(r) =>
          /\ resp'[r] = <<StatusInsufficient>>
          /\ ended[r] = 0
          /\ stock' = stock /\ orders' = orders /\ order_items' = order_items
          /\ Absent(r)' /\ wStock'[r] = NoWrites]_vars

\* A request was refused at its second item after the first one had been
\* decremented in its transaction; the committed stock is the seeded one.
InsufficientStockRefusedWitness ==
  \E r \in Req :
    /\ Clean(r) /\ resp[r] = <<StatusInsufficient>>
    /\ items[r] = <<[productId |-> "p2", quantity |-> SeedStock["p2"]],
                    [productId |-> "p1", quantity |-> SeedStock["p1"] + 1]>>
    /\ stock = SeedStock /\ orders = {} /\ order_items = {}

\* C5 as stated: a request whose item names an id no product has is answered
\* 404 and leaves no row of its order.
UnknownProductIs404 ==
  \A r \in Req :
    Clean(r) /\ idx[r] >= 1 /\ Item(r).productId \notin Prod
      => resp[r] = <<StatusNotFound>> /\ Absent(r)

\* C6: the commit of an order lowers the stock of each product by exactly the
\* quantities the order asks for, and at all times seeded stock minus stock
\* equals the quantities of the committed order_items of the product.
StockConservation ==
  /\ [](\A p \in Prod : SeedStock[p] - stock[p] = Sold(p))
  /\ [][\A r \in Req : OrderRows(r) = {} /\ OrderRows(r)' # {} =>
          \A p \in Prod : stock[p] - stock'[p] = Requested(items[r], p)]_vars

\* Both orders are committed, one of them with two items of one product.
StockConservationWitness ==
  /\ Cardinality(orders) = 2
  /\ \E r \in Req, p \in Prod :
       /\ Len(items[r]) = 2
       /\ items[r][1].productId = p /\ items[r][2].productId = p
       /\ stock[p] # SeedStock[p]

\* Transaction r has read the stock of row p for a check or written it.
Using(r, p) ==
  /\ tx[r] = "open"
  /\ \/ p \in DOMAIN wStock[r]
     \/ pc[r] \in {"rbStock", "update"} /\ product[r].id = p

\* The step in which the lookup of r returns a row.
LookupStep(r) == pc[r] = "select" /\ pc'[r] \in {"rbStock", "update"}

\* C7: a transaction that has read or decremented the stock of a product
\* holds the row lock, so no second one does either before the first ends;
\* and the stock a lookup returns is the committed one (or the transaction's
\* own earlier write), with no other transaction's write of the row pending.
RowLockSerializes ==
  /\ [](\A r \in Req, p \in Prod : Using(r, p) => lock[p] = r)
  /\ [][\A r \in Req : LookupStep(r) =>
          LET p == Item(r).productId IN
            /\ lock[p] \in {None, r}
            /\ \A q \in Req \ {r} : p \notin DOMAIN wStock[q]
            /\ product'[r].stock = Visible(r, p)]_vars

\* One transaction has decremented a product and not ended; the lookup of
\* the other request for the same product waits.
RowLockSerializesWitness ==
  \E r, q \in Req :
    /\ r # q /\ WaitsFor(q) = r
    /\ Item(q).productId \in DOMAIN wStock[r]
    /\ pc[r] = "commit"

\* C8 as stated: the first item that fails decides the answer: 404 for an
\* unknown product, 400 for insufficient stock; no later item is read and
\* nothing of the order is committed.
FirstFailureDecides ==
  \A r \in Req :
    Clean(r) /\ idx[r] >= 1 /\ resp[r] # <<StatusOk>> =>
      /\ Len(items[r]) = idx[r]
      /\ Item(r).productId \notin Prod => resp[r] = <<StatusNotFound>>
      /\ Item(r).productId \in Prod => resp[r] = <<StatusInsufficient>>
      /\ Absent(r)

\* C9 as stated: every request that fails gets exactly one response, with
\* status 400, 404 or 500, and 500 after a store failure.
EveryFailureAnswered ==
  \A r \in Req :
    Finished(r) =>
      /\ Len(resp[r]) = 1
      /\ resp[r][1] \in {StatusOk, StatusInvalid, StatusNotFound, StatusError}
      /\ faulted[r] => resp[r] = <<StatusError>>

\* Nothing of request r is left in the store session.
NothingHeld(r) ==
  /\ tx[r] = "none"
  /\ \A p \in Prod : lock[p] # r
  /\ wStock[r] = NoWrites /\ wOrder[r] = {} /\ wItems[r] = {}

\* C10 as stated: on every exit path exactly one COMMIT or ROLLBACK has ended
\* the transaction and the client was released exactly once.
EndedAndReleasedOnce ==
  \A r \in Req :
    Finished(r) => ended[r] = 1 /\ released[r] = 1 /\ NothingHeld(r)

\* C10 amended: a request that got a client releases it exactly once (one
\* that got none releases nothing); at most one COMMIT or ROLLBACK is executed
\* for it, exactly one unless its connection was lost, and then the server
\* ends the transaction; in every case no lock and no open transaction is
\* left when the request has finished.
ReleasedOnceNothingHeld ==
  \A r \in Req :
    Finished(r) =>
      /\ released[r] = IF client[r] THEN 1 ELSE 0
      /\ ended[r] <= 1
      /\ client[r] /\ alive[r] => ended[r] = 1
      /\ NothingHeld(r)

\* A request lost a deadlock after decrementing a product: the catch block
\* rolled back, answered 500 and the client was released.
ReleasedOnceNothingHeldWitness ==
  \E r \in Req :
    /\ Finished(r) /\ faulted[r] /\ alive[r]
    /\ resp[r] = <<StatusError>>
    /\ ended[r] = 1 /\ released[r] = 1

\* The steps of the handler of request r.
StepOf(r) == pc'[r] # pc[r]

\* The items of the body are absent or not a list, or the list is empty.
NoItems(b) == b.isArray => b.length = 0

\* C11: a request whose items are absent, not a list or an empty list reads no
\* item, locks no product row, writes nothing in its transaction and commits
\* no row; no step of it changes the committed tables or a row lock; and
\* unless the store fails it, it is answered 400 after one ROLLBACK.
InvalidItemsRefused ==
  /\ [](\A r \in Req : pc[r] # "idle" /\ NoItems(body[r]) =>
          /\ idx[r] = 0 /\ items[r] = <<>>
          /\ \A p \in Prod : lock[p] # r
          /\ wStock[r] = NoWrites /\ wOrder[r] = {} /\ wItems[r] = {}
          /\ Absent(r)
          /\ Clean(r) => resp[r] = <<StatusInvalid>> /\ ended[r] = 1)
  /\ [][\A r \in Req : StepOf(r) /\ NoItems(body'[r]) =>
          UNCHANGED <<stock, orders, order_items, lock>>]_vars

\* A request with an empty list was answered 400 while the other request held
\* the row lock of a product it had decremented.
InvalidItemsRefusedWitness ==
  \E r, q \in Req :
    /\ Clean(r) /\ body[r].isArray /\ body[r].length = 0
    /\ resp[r] = <<StatusInvalid>>
    /\ pc[q] = "commit" /\ \E p \in Prod : lock[p] = q

\* Sum over the items of the list of unit price times quantity, in cents.
PriceSum(its) ==
  LET at == 1..Len(its)
  IN  SumFn([k \in at |-> SeedPrice[its[k].productId] * its[k].quantity], at)

Abs(n) == IF n >= 0 THEN n ELSE -n

\* c cents is x hundredths of a cent rounded to the nearest cent.
NearestCent(c, x) == 2 * Abs(100 * c - x) <= 100

\* C12: once the first loop is through, the local total is the sum over the
\* input items of unit price times quantity; the total of every committed
\* order is that sum times 1.08 rounded to the nearest cent; and Milk at 3.00
\* with quantity 2 gives 6.48.
TotalsExact ==
  /\ \A r \in Req :
       pc[r] \in {"insertOrder", "insertItem", "commit"} =>
         total[r] = PriceSum(items[r])
  /\ \A r \in Req : \A o \in OrderRows(r) :
       NearestCent(o.total, 108 * PriceSum(items[r]))
  /\ TotalWithTax(2 * SeedPrice["p1"]) = 648

\* An order of one Milk and one Orange is committed: 3.85 before tax, 4.158
\* with tax, stored and returned as 4.16.
TotalsExactWitness ==
  \E r \in Req :
    /\ resp[r] = <<StatusOk>>
    /\ items[r] = <<[productId |-> "p1", quantity |-> 1],
                    [productId |-> "p2", quantity |-> 1]>>
    /\ OrderRows(r) = {[id |-> r, total |-> 416]}

\* C13 as stated: every committed order_items row has a positive quantity,
\* belongs to exactly one committed order and references a product row, and
\* every committed order has a total above 0.
PersistedRowsPositive ==
  /\ \A i \in order_items :
       /\ i.quantity > 0
       /\ Cardinality({o \in orders : o.id = i.order_id}) = 1
       /\ i.product_id \in DOMAIN stock
  /\ \A o \in orders : o.total > 0

\* C14 as stated: no step raises the committed stock of a product or removes
\* a product row.
StockOnlyDecreases ==
  [][/\ DOMAIN stock' = DOMAIN stock
     /\ \A p \in DOMAIN stock : stock'[p] <= stock[p]]_vars

\* The step in which the seed statement of initDB runs.
SeedStep == seeds' = seeds + 1

\* The catalog holds exactly one row of each seeded name, with the price,
\* stock and barcode of the seed data.
SeedShaped(c) ==
  \A p \in Prod :
    LET named == {x \in c : x.name = SeedName[p]} IN
      /\ Cardinality(named) = 1
      /\ \A x \in named : /\ x.price = SeedPrice[p]
                           /\ x.stock = SeedStock[p]
                           /\ x.barcode = SeedBarcode[p]

\* C15: whatever rows the seed step finds, it leaves exactly one row per
\* seeded name holding the seed's price, stock and barcode and keeps the id
\* of every row it found; run again on what it left it changes nothing, and
\* the second of two seed runs in succession leaves the catalog as the first
\* left it.
SeedingIdempotent ==
  [][SeedStep =>
       /\ SeedShaped(catalog')
       /\ {x.id : x \in catalog} \subseteq {x.id : x \in catalog'}
       /\ Cardinality(catalog') = Cardinality(Prod)
       /\ Upsert(catalog') = catalog'
       /\ seeds >= 1 => catalog' = catalog]_vars

\* The process was started twice and the seed step has run both times.
SeedingIdempotentWitness ==
  /\ seeds = 2 /\ runs = 2 /\ seeded
  /\ SeedShaped(catalog)

\* C16: connectDB calls pool.connect() at most 10 times and not again after a
\* call succeeded; after 10 failed calls the next step ends the process;
\* a process that has exited has registered no route and does not listen;
\* routes exist and the server listens only after connectDB and initDB have
\* both returned.
StartupBounded ==
  /\ [](/\ attempts <= 10
        /\ connected => phase \in {"initDB", "listening", "exited"}
        /\ attempts = 10 /\ ~connected => phase \in {"wait", "exited"}
        /\ phase = "exited" => ~routes /\ ~listening
        /\ phase = "exited" /\ ~connected => attempts = 10
        /\ routes \/ listening => connected /\ seeded
        /\ phase = "listening" <=> routes /\ listening)
  /\ [][/\ connected /\ runs' = runs => attempts' = attempts
        /\ attempts = 10 /\ ~connected /\ phase = "wait" => phase' = "exited"
       ]_vars

\* Ten calls of pool.connect() failed and the process has exited.
StartupBoundedWitness ==
  /\ phase = "exited" /\ attempts = 10 /\ ~connected
  /\ ~routes /\ ~listening /\ seeds = 0

\* Request r has arrived.
Arrived(r) == pc[r] # "idle"

\* C17 as stated: every request that has arrived eventually has its
\* transaction ended and a response sent.
EveryRequestAnswered ==
  \A r \in Req : Arrived(r) ~> (tx[r] = "none" /\ Len(resp[r]) >= 1)

\* What holds of C17: every request that has arrived eventually finishes with
\* no transaction open and no row lock held, whatever locks the other request
\* holds: no request waits forever for a row lock.
NoLockWaitForever ==
  \A r \in Req : Arrived(r) ~> (Finished(r) /\ NothingHeld(r))

\* The two requests wait for each other's row lock.
OppositeOrderDeadlock ==
  /\ WaitsFor("r1") = "r2" /\ WaitsFor("r2") = "r1"

\* The products the items list names more than once.
Repeated(its) ==
  {p \in Prod : Cardinality({k \in 1..Len(its) : its[k].productId = p}) > 1}

\* The step in which the order of request r is committed.
CommitStep(r) == OrderRows(r) = {} /\ OrderRows(r)' # {}

\* C18 as stated: an order that names a product more than once is committed
\* only if the quantities it asks of that product sum to no more than the
\* stock the product had when the transaction began, and the commit lowers
\* the stock by that sum.
RepeatedWithinStartStock ==
  [][\A r \in Req : CommitStep(r) =>
       \A p \in Repeated(items[r]) :
         /\ Requested(items[r], p) <= startStock[r][p]
         /\ stock'[p] = stock[p] - Requested(items[r], p)]_vars

\* What holds of C18: each lookup of a product returns the committed stock
\* less what the earlier items of the same request took of it, so a
\* committed order asked in total for no more than the stock the product had
\* when the request locked its row, and the commit lowers the stock by that
\* total.
RepeatedWithinLockedStock ==
  [][\A r \in Req :
       /\ LookupStep(r) =>
            LET p == Item(r).productId IN
              product'[r].stock =
                stock[p] - Requested(SubSeq(items[r], 1, idx[r] - 1), p)
       /\ CommitStep(r) =>
            \A p \in Repeated(items[r]) :
              /\ Requested(items[r], p) <= stock[p]
              /\ stock'[p] = stock[p] - Requested(items[r], p)]_vars

\* A request asked twice for the whole stock of a product: the first item
\* passed, the second was checked against stock 0 and refused.
RepeatedSecondRefused ==
  \E r \in Req, p \in Prod :
    /\ Clean(r) /\ resp[r] = <<StatusInsufficient>>
    /\ items[r] = <<[productId |-> p, quantity |-> SeedStock[p]],
                    [productId |-> p, quantity |-> SeedStock[p]]>>

\* The rows the query of the items returns for the committed order of r when
\* every row of the order is there.
WholeItemList(r) ==
  {[name |-> SeedName[items[r][k].productId],
    quantity |-> items[r][k].quantity, pos |-> k] : k \in 1..body[r].length}

\* The response of the GET handler.
GetResponse == getRes[1]

\* The GET handler has answered and the store failed none of its queries.
GetAnswered == gpc = "done" /\ ~getFaulted /\ Len(getRes) = 1

\* C19 as stated: a GET that finds the order returns it with exactly the
\* items its placement created, and a GET for an id no committed order has
\* is answered 404.
GetWholeOrderOr404 ==
  GetAnswered =>
    /\ GetResponse.status = StatusFetched =>
         /\ orderId \in Req
         /\ GetResponse.order = OrderRows(orderId)
         /\ GetResponse.items = WholeItemList(orderId)
    /\ GetResponse.status # StatusFetched =>
         GetResponse.status = StatusOrderNotFound

\* What holds of C19: the same, for an id that is uuid text.
GetWholeOrderOr404Uuid ==
  GetAnswered /\ IsUuid(orderId) =>
    /\ GetResponse.status = StatusFetched =>
         /\ orderId \in Req
         /\ GetResponse.order = OrderRows(orderId)
         /\ GetResponse.items = WholeItemList(orderId)
    /\ GetResponse.status # StatusFetched =>
         GetResponse.status = StatusOrderNotFound

\* The GET found an order of two items and returned both while the other
\* request was between its inserts.
GetWholeOrderWitness ==
  \E r, q \in Req :
    /\ GetAnswered /\ orderId = r /\ GetResponse.status = StatusFetched
    /\ Cardinality(GetResponse.items) = 2
    /\ pc[q] = "insertItem" /\ nIns[q] = 1

====
